---- MODULE Spec2Model ----
(***************************************************************************)
(* A model of the OmniAI retrieval-augmented chat backend:                 *)
(*   backend/memory.py      ConversationMemory (sliding window + analytics) *)
(*   backend/rag_engine.py  RAGEngine (vector index, top-k retrieval)       *)
(*   backend/llm_engine.py  LLMEngine (prompt building, completion call)    *)
(*   backend/app.py         the /chat, /clear_session, /session handlers    *)
(*                                                                         *)
(* A text (Python str) is a sequence of tokens; "" is the empty sequence,  *)
(* concatenation is \o, and "a in b" is IsSubSeq(a, b).                     *)
(***************************************************************************)
EXTENDS Integers, Sequences, FiniteSets, TLC

VARIABLES
    max_messages,    \* ConversationMemory.max_messages
    conversations,   \* ConversationMemory.conversations: session id -> deque
    analytics_log,   \* ConversationMemory.analytics_log
    added,           \* history of the model: per session, every message added since the session was created
    rag_model,       \* RAGEngine.model: the sentence encoder, None until initialize loads it
    embeddings,      \* RAGEngine.embeddings: [is_none, rows], rows the matrix of document vectors
    documents,       \* RAGEngine.documents
    kb,              \* RAGEngine.kb, the KnowledgeBase of backend/database.py
    fs,              \* the files: data/faqs.json, data/policies.json, models/vector_store/vectors.pkl
    llm_engine,      \* the LLMEngine instance
    environ,         \* os.getenv of the API key variable of the provider, None when it is not set
    llm_out,         \* history of the model: the last generate_response call made on the engine directly, and its result
    phase,           \* "constructed" until startup_event has run, then "serving"
    issued,          \* the uuids given to requests that came without a session id
    search_out,      \* history of the model: the last retrieve_context call, its inputs and its result
    chat_out,        \* history of the model: the last chat request, its inputs, what it computed and its response
    exchanged,       \* history of the model: per session, the messages of its last chat request
    reply,           \* history of the model: what the last query returned (/session, /stats, /health, /clear_session, format_history_for_prompt)
    announced,       \* what startup_event has printed
    init_out,        \* history of the model: the last RAGEngine.initialize call, what it found and what it returned
    loop,            \* what the thread of the event loop is doing: idle, or inside the handler of a request
    pending,         \* the chat requests submitted whose handler has not started yet
    started,         \* history of the model: the chat requests whose handler has started, in order, each with the requests that waited then
    last_op,         \* history of the model: the operation performed last, with its arguments
    n_ops            \* history of the model: number of operations performed so far

(***************************************************************************)
(* Bounds of the model                                                     *)
(***************************************************************************)
MaxCapacity == 2     \* largest capacity a ConversationMemory is constructed with in SpecMemory
MaxOps == 4          \* operations per behaviour of SpecMemory
MaxDocs == 3         \* largest corpus indexed
MaxRequests == 2     \* requests served per behaviour of Spec
MaxRuns == 2         \* calls of RAGEngine.initialize per behaviour of SpecIndex

(***************************************************************************)
(* Texts                                                                   *)
(***************************************************************************)
None == <<"<None>">>                 \* Python None, where a text or a mapping is optional

RECURSIVE Join(_, _)
\* sep.join(parts), parts a sequence of texts
Join(parts, sep) ==
    IF Len(parts) = 0 THEN <<>>
    ELSE IF Len(parts) = 1 THEN parts[1]
    ELSE parts[1] \o sep \o Join(Tail(parts), sep)

\* a in b, for texts
IsSubSeq(a, b) ==
    \E i \in 0..(Len(b) - Len(a)) : SubSeq(b, i + 1, i + Len(a)) = a

\* s[-n:] for n >= 1
\* seq[-k:] of a Python sequence, for every integer k
SliceLast(seq, k) ==
    LET n == Len(seq)
        start == IF -k < 0 THEN (IF n - k < 0 THEN 0 ELSE n - k)
                 ELSE (IF -k > n THEN n ELSE -k)
    IN  SubSeq(seq, start + 1, n)

LastN(s, n) == IF Len(s) <= n THEN s ELSE SubSeq(s, Len(s) - n + 1, Len(s))

(***************************************************************************)
(* Inputs                                                                  *)
(***************************************************************************)
Sessions == {"s1", "s2"}
Roles == {"user", "assistant"}
Messages == {<<"hi">>, <<"reset", "password">>}
Metadatas == {None, <<"{tag}">>}

(***************************************************************************)
(* backend/memory.py                                                       *)
(***************************************************************************)
\* metadata or {}
OrEmptyDict(metadata) == IF metadata = None THEN <<"{}">> ELSE metadata

\* the mutant of DequeAppend: a full deque drops the new message instead of the oldest one
DequeAppendDropsNewest(d, x, maxlen) ==
    IF Len(d) >= maxlen THEN d ELSE Append(d, x)

\* deque(maxlen=maxlen).append(x)
DequeAppend(d, x, maxlen) ==
    IF maxlen = 0 THEN d
    ELSE IF Len(d) >= maxlen THEN Append(Tail(d), x)
    ELSE Append(d, x)

\* the dict d with d[k] = v
DictSet(d, k, v) == [x \in (DOMAIN d) \cup {k} |-> IF x = k THEN v ELSE d[x]]

\* the dict d after del d[k]
DictDel(d, k) == [x \in (DOMAIN d) \ {k} |-> d[x]]

\* the mutant of ClearConversations: clearing a session drops every session
ClearConversationsDropsAll(convs, session_id) ==
    IF session_id \in DOMAIN convs THEN <<>> ELSE convs

\* the record log_message builds
LogEntry(session_id, role, content, context_used, processing_time, metadata) ==
    [session_id |-> session_id, role |-> role, content |-> content,
     context_used |-> context_used, processing_time |-> processing_time,
     metadata |-> OrEmptyDict(metadata)]

\* the mutant of LogMessage: the record is put in front of the log
LogMessageInFront(log, session_id, role, content, context_used, processing_time, metadata) ==
    <<LogEntry(session_id, role, content, context_used, processing_time, metadata)>> \o log

\* ConversationMemory.log_message, as a function of the log
LogMessage(log, session_id, role, content, context_used, processing_time, metadata) ==
    Append(log, LogEntry(session_id, role, content, context_used, processing_time, metadata))

\* the message add_message builds
Message(role, content, metadata) ==
    [role |-> role, content |-> content, metadata |-> OrEmptyDict(metadata)]

\* the mutant of AddToConversations: the message is appended to a new deque
AddToConversationsLost(convs, session_id, role, content, metadata) ==
    DictSet(convs, session_id,
            DequeAppend(<<>>, Message(role, content, metadata), max_messages))

\* ConversationMemory.add_message: the conversations after the call
AddToConversations(convs, session_id, role, content, metadata) ==
    LET d == IF session_id \in DOMAIN convs THEN convs[session_id] ELSE <<>>
    IN  DictSet(convs, session_id,
                DequeAppend(d, Message(role, content, metadata), max_messages))

\* ConversationMemory.add_message: the analytics log after the call
\* (log_message with its defaults context_used=0, processing_time=None)
AddToAnalytics(log, session_id, role, content, metadata) ==
    LogMessage(log, session_id, role, content, 0, None, metadata)

\* the history variable kept beside add_message
AddToAdded(a, session_id, role, content, metadata) ==
    DictSet(a, session_id,
            (IF session_id \in DOMAIN a THEN a[session_id] ELSE <<>>)
                \o <<Message(role, content, metadata)>>)

\* ConversationMemory.get_conversation_history
get_conversation_history(convs, session_id) ==
    IF session_id \notin DOMAIN convs THEN <<>> ELSE convs[session_id]

\* ConversationMemory.get_last_n_messages
get_last_n_messages(convs, session_id, n) ==
    LET history == get_conversation_history(convs, session_id)
    IN  IF history # <<>> THEN SliceLast(history, n) ELSE <<>>

\* the mutant of ClearConversations: the deque of the session is emptied and its key kept
ClearConversationsEmptied(convs, session_id) ==
    IF session_id \in DOMAIN convs THEN DictSet(convs, session_id, <<>>) ELSE convs

\* ConversationMemory.clear_session: the conversations after the call
ClearConversations(convs, session_id) ==
    IF session_id \in DOMAIN convs THEN DictDel(convs, session_id) ELSE convs

\* ConversationMemory.get_all_sessions
get_all_sessions(convs) == DOMAIN convs

RECURSIVE CountRole(_, _)
CountRole(log, role) ==
    IF log = <<>> THEN 0
    ELSE (IF log[1].role = role THEN 1 ELSE 0) + CountRole(Tail(log), role)

\* ConversationMemory.get_analytics_summary
get_analytics_summary(log) ==
    [analytics_total_messages |-> Len(log),
     analytics_user_messages |-> CountRole(log, "user"),
     analytics_assistant_messages |-> CountRole(log, "assistant")]

(***************************************************************************)
(* backend/database.py: the documents of the knowledge base                *)
(***************************************************************************)
\* source records; a field that the JSON record lacks is None
F1 == [id |-> <<"1">>, category |-> <<"Account">>,
       question |-> <<"reset", "password">>, answer |-> <<"use", "the", "link">>]
F2 == [id |-> None, category |-> None,
       question |-> <<"refund">>, answer |-> <<"within", "30", "days">>]
F3 == [id |-> None, category |-> <<"Billing">>,
       question |-> <<"invoice">>, answer |-> None]
P1 == [id |-> <<"1">>, title |-> <<"Privacy">>, category |-> <<"Legal">>,
       content |-> <<"we", "keep", "data">>]

\* contents of faqs.json and of policies.json
FaqLists == {<<>>, <<F1>>, <<F2>>, <<F1, F2>>, <<F2, F3>>, <<F1, F2, F3>>}
PolicyLists == {<<>>, <<P1>>}

\* record.get(field, default)
Get(field, default) == IF field = None THEN default ELSE field

\* the document _prepare_documents builds of a FAQ record
FaqDoc(faq) ==
    [id |-> <<"faq_">> \o Get(faq.id, <<"NA">>),
     type |-> <<"faq">>,
     category |-> Get(faq.category, <<"General">>),
     content |-> <<"Question: ">> \o Get(faq.question, <<>>)
                    \o <<"\nAnswer: ">> \o Get(faq.answer, <<>>),
     metadata |-> [question |-> Get(faq.question, <<>>),
                   answer |-> Get(faq.answer, <<>>),
                   category |-> Get(faq.category, <<>>)]]

\* the document _prepare_documents builds of a policy record
PolicyDoc(policy) ==
    [id |-> <<"policy_">> \o Get(policy.id, <<"NA">>),
     type |-> <<"policy">>,
     category |-> Get(policy.category, <<"General">>),
     content |-> <<"Title: ">> \o Get(policy.title, <<>>)
                    \o <<"\nCategory: ">> \o Get(policy.category, <<>>)
                    \o <<"\nContent: ">> \o Get(policy.content, <<>>),
     metadata |-> [title |-> Get(policy.title, <<>>),
                   category |-> Get(policy.category, <<>>),
                   content |-> Get(policy.content, <<>>)]]

\* KnowledgeBase._prepare_documents: the FAQ documents, then the policy documents
PrepareDocuments(faqs, policies) ==
    [i \in 1..Len(faqs) |-> FaqDoc(faqs[i])] \o [i \in 1..Len(policies) |-> PolicyDoc(policies[i])]

\* KnowledgeBase.get_statistics
get_statistics(k) ==
    [total_documents |-> Len(k.all_documents),
     total_faqs |-> Len(k.faqs),
     total_policies |-> Len(k.policies),
     categories |-> {k.all_documents[i].category : i \in 1..Len(k.all_documents)}]

\* the corpora of the model
Corpora ==
    {c \in {PrepareDocuments(f, p) : f \in FaqLists, p \in PolicyLists} : Len(c) <= MaxDocs}

(***************************************************************************)
(* backend/rag_engine.py: retrieval                                        *)
(***************************************************************************)
\* The encoder's vectors. All have the same norm, so that the cosine of two of
\* them is their dot product over the dot product of one with itself.
Vectors == {<<5, 0>>, <<4, 3>>, <<4, -3>>, <<0, 5>>}

\* what SentenceTransformer.encode gives for one text: a vector, or it raises
EncodeFails == <<>>
EncodeOutcomes == Vectors \cup {EncodeFails}

Dot(a, b) == a[1] * b[1] + a[2] * b[2]

\* cosine_similarity(query_embedding, embeddings)[0], each score in hundredths
cosine_similarity(qv, rows) ==
    [i \in 1..Len(rows) |-> (100 * Dot(qv, rows[i])) \div Dot(qv, qv)]

\* the permutations of 1..n
Permutations1(n) ==
    {p \in [1..n -> 1..n] : \A i, j \in 1..n : i # j => p[i] # p[j]}

\* the mutant of ArgSort: descending order
ArgSortDescending(a) ==
    {p \in Permutations1(Len(a)) : \A i \in 1..(Len(a) - 1) : a[p[i]] >= a[p[i + 1]]}

\* np.argsort(a): the indices that sort a in ascending order. The default kind is
\* quicksort, which is not stable: equal elements come in any order.
ArgSort(a) ==
    {p \in Permutations1(Len(a)) : \A i \in 1..(Len(a) - 1) : a[p[i]] <= a[p[i + 1]]}

\* seq[::-1]
Reverse(seq) == [i \in 1..Len(seq) |-> seq[Len(seq) + 1 - i]]

\* the list the loop of retrieve_context builds of top_indices
ResultsOf(docs, similarities, top_indices) ==
    [r \in 1..Len(top_indices) |->
        [index |-> top_indices[r],
         document |-> docs[top_indices[r]],
         score |-> similarities[top_indices[r]],
         rank |-> r]]

\* the mutant of RetrieveContext: an index without vectors answers with a placeholder result
RetrieveContextPadded(model, emb, docs, enc, top_k) ==
    {<< [index |-> 0, document |-> FaqDoc(F1), score |-> 0, rank |-> 1] >>}

\* RAGEngine.retrieve_context: the results it can return. enc is what encoding
\* the query gives. Every exception inside it is caught and gives [].
RetrieveContext(model, emb, docs, enc, top_k) ==
    IF emb.is_none \/ Len(emb.rows) = 0 THEN {<<>>}
    ELSE IF model = "None" \/ enc = EncodeFails THEN {<<>>}
    ELSE LET similarities == cosine_similarity(enc, emb.rows)
         IN  {IF \E i \in 1..Len(top) : top[i] > Len(docs)
                  THEN <<>>
                  ELSE ResultsOf(docs, similarities, top) :
                top \in {Reverse(SliceLast(p, top_k)) : p \in ArgSort(similarities)}}

\* str.upper() of a document type
Upper(text) ==
    [i \in 1..Len(text) |->
        CASE text[i] = "faq" -> "FAQ" [] text[i] = "policy" -> "POLICY" [] OTHER -> text[i]]

NoRelevantInformation == <<"No relevant information found.">>

\* a key that a dict lacks, and the exception of a statement in place of its value
Absent == <<"<absent>">>
Raise(e) == <<"<raise>">> \o e
IsRaise(x) == x # <<>> /\ x[1] = "<raise>"
ExceptionText(x) == Tail(x)

\* the lines format_context appends for the i-th retrieved item
SourceLines(i, item) ==
    << <<"\n[Source ", ToString(i), "] (Relevance: ", ToString(item.score), ".00%)">>,
       <<"Type: ">> \o Upper(item.document.type),
       <<"Category: ">> \o item.document.category,
       <<"Content: ">> \o item.document.content,
       <<"--------">> >>

RECURSIVE AllSourceLines(_, _)
AllSourceLines(retrieved_docs, i) ==
    IF i > Len(retrieved_docs) THEN <<>>
    ELSE SourceLines(i, retrieved_docs[i]) \o AllSourceLines(retrieved_docs, i + 1)

\* RAGEngine.format_context. doc['type'], doc['category'] and doc['content'] raise
\* KeyError on a document that lacks the key.
format_context(retrieved_docs) ==
    IF retrieved_docs = <<>> THEN NoRelevantInformation
    ELSE IF \E i \in 1..Len(retrieved_docs) : retrieved_docs[i].document.type = Absent
        THEN Raise(<<"'type'">>)
    ELSE Join(<< <<"Relevant Information:\n">> >> \o AllSourceLines(retrieved_docs, 1), <<"\n">>)

\* RAGEngine.get_relevant_context: the (formatted, retrieved) pairs it can return
get_relevant_context(model, emb, docs, enc, top_k) ==
    {<<format_context(retrieved), retrieved>> :
        retrieved \in RetrieveContext(model, emb, docs, enc, top_k)}

(***************************************************************************)
(* backend/memory.py: the transcript for the prompt                        *)
(***************************************************************************)
StartOfConversation == <<"This is the start of the conversation.">>

\* the line format_history_for_prompt writes for one message
TranscriptLine(msg) ==
    (IF msg.role = "user" THEN <<"User", ": ">> ELSE <<"Assistant", ": ">>) \o msg.content

\* the mutant of format_history_for_prompt: the transcript is cut to the last message
format_history_last_only(convs, session_id, include_last_n) ==
    LET messages == get_last_n_messages(convs, session_id, 1)
    IN  IF messages = <<>> THEN StartOfConversation
        ELSE Join(<< <<"Previous conversation:">> >>
                      \o [i \in 1..Len(messages) |-> TranscriptLine(messages[i])], <<"\n">>)

\* ConversationMemory.format_history_for_prompt
format_history_for_prompt(convs, session_id, include_last_n) ==
    LET messages == get_last_n_messages(convs, session_id, include_last_n)
    IN  IF messages = <<>> THEN StartOfConversation
        ELSE Join(<< <<"Previous conversation:">> >>
                      \o [i \in 1..Len(messages) |-> TranscriptLine(messages[i])], <<"\n">>)

(***************************************************************************)
(* backend/llm_engine.py                                                   *)
(***************************************************************************)
HardcodedGroqKey == <<"gsk_hardcoded">>

\* a or b, for optional texts
Truthy(text) == text # None /\ text # <<>>
Or(a, b) == IF Truthy(a) THEN a ELSE b

\* LLMEngine(provider), with env the environment variable holding the key
\* of the provider (None when unset)
LLMEngine(provider, env) ==
    CASE provider = "groq" ->
            [provider |-> provider, api_key |-> Or(env, HardcodedGroqKey),
             model |-> <<"llama-3.3-70b-versatile">>,
             api_url |-> <<"https://api.groq.com/openai/v1/chat/completions">>]
      [] provider = "openai" ->
            [provider |-> provider, api_key |-> env,
             model |-> <<"gpt-4o-mini">>,
             api_url |-> <<"https://api.openai.com/v1/chat/completions">>]
      [] OTHER ->
            [provider |-> provider, api_key |-> None, model |-> None, api_url |-> None]

\* the system prompt build_prompt selects
SystemPrompt(mode) ==
    CASE mode = "business" -> <<"You are a business professional assistant.">>
      [] mode = "education" -> <<"You are an educational tutor assistant.">>
      [] OTHER -> <<"You are GROK.">>

\* the mutant of build_prompt: the context is written before the transcript
build_prompt_context_first(user_query, context, conversation_history, mode) ==
    << SystemPrompt(mode),
       (IF Truthy(context) THEN <<"Context:\n">> \o context \o <<"\n">> ELSE <<>>)
       \o (IF Truthy(conversation_history)
            THEN <<"Conversation History:\n">> \o conversation_history \o <<"\n">> ELSE <<>>)
       \o <<"User Question:\n">> \o user_query \o <<"\n">> >>

\* LLMEngine.build_prompt: <<system_prompt, user_prompt>>
build_prompt(user_query, context, conversation_history, mode) ==
    << SystemPrompt(mode),
       (IF Truthy(conversation_history)
            THEN <<"Conversation History:\n">> \o conversation_history \o <<"\n">> ELSE <<>>)
       \o (IF Truthy(context) THEN <<"Context:\n">> \o context \o <<"\n">> ELSE <<>>)
       \o <<"User Question:\n">> \o user_query \o <<"\n">> >>

\* what the completion service does with one request:
\*   ok: status 200 and a body holding text
\*   status: another status code
\*   timeout: no answer within the timeout of 30
\*   transport: requests.post raises another exception, or the body of a 200 is malformed
Replies == {<<" ", "the", "answer", " ">>}
ServiceOutcomes ==
    {[kind |-> "ok", text |-> t] : t \in Replies}
    \cup {[kind |-> k, text |-> <<"detail">>] : k \in {"status", "timeout", "transport"}}

RECURSIVE LStrip(_)
LStrip(text) == IF text # <<>> /\ Head(text) = " " THEN LStrip(Tail(text)) ELSE text

\* str.strip()
Strip(text) == Reverse(LStrip(Reverse(LStrip(text))))

\* provider.upper()
UpperProvider(provider) ==
    CASE provider = "groq" -> "GROQ" [] provider = "openai" -> "OPENAI" [] OTHER -> provider

\* the mutant of ask_llm: a request that failed is posted once more before the failure is returned
ask_llm_retrying(engine, prompt_tuple, temperature, max_tokens, outcome) ==
    LET request == [url |-> engine.api_url, key |-> engine.api_key, model |-> engine.model,
                    messages |-> << [role |-> "system", content |-> prompt_tuple[1]],
                                    [role |-> "user", content |-> prompt_tuple[2]] >>,
                    temperature |-> temperature, max_tokens |-> max_tokens]
    IN  IF outcome.kind = "ok"
        THEN [success |-> TRUE, response |-> outcome.text, kind |-> "ok",
              error |-> None, sent |-> <<request>>]
        ELSE [success |-> FALSE, response |-> <<>>, kind |-> outcome.kind,
              error |-> outcome.text, sent |-> <<request, request>>]

\* the mutant of ask_llm: requests.exceptions.Timeout is caught by the handler of Exception
ask_llm_no_timeout_branch(engine, prompt_tuple, temperature, max_tokens, outcome) ==
    LET request == [url |-> engine.api_url, key |-> engine.api_key, model |-> engine.model,
                    messages |-> << [role |-> "system", content |-> prompt_tuple[1]],
                                    [role |-> "user", content |-> prompt_tuple[2]] >>,
                    temperature |-> temperature, max_tokens |-> max_tokens]
    IN  IF ~Truthy(engine.api_key)
        THEN [success |-> FALSE, response |-> <<>>, kind |-> "unconfigured",
              error |-> <<UpperProvider(engine.provider), "_API_KEY not configured">>,
              sent |-> <<>>]
        ELSE IF outcome.kind = "ok"
        THEN [success |-> TRUE, response |-> Strip(outcome.text), kind |-> "ok",
              error |-> None, sent |-> <<request>>]
        ELSE IF outcome.kind = "status"
        THEN [success |-> FALSE, response |-> <<>>, kind |-> "status",
              error |-> <<"API Error ">> \o outcome.text, sent |-> <<request>>]
        ELSE [success |-> FALSE, response |-> <<>>, kind |-> outcome.kind,
              error |-> <<"LLM Error: ">> \o outcome.text, sent |-> <<request>>]

\* LLMEngine.ask_llm: the dict returned, and in sent the requests posted to the service
ask_llm(engine, prompt_tuple, temperature, max_tokens, outcome) ==
    IF ~Truthy(engine.api_key)
    THEN [success |-> FALSE, response |-> <<>>, kind |-> "unconfigured",
          error |-> <<UpperProvider(engine.provider), "_API_KEY not configured">>,
          sent |-> <<>>]
    ELSE LET request == [url |-> engine.api_url, key |-> engine.api_key, model |-> engine.model,
                         messages |-> << [role |-> "system", content |-> prompt_tuple[1]],
                                         [role |-> "user", content |-> prompt_tuple[2]] >>,
                         temperature |-> temperature, max_tokens |-> max_tokens]
         IN CASE outcome.kind = "ok" ->
                    [success |-> TRUE, response |-> Strip(outcome.text), kind |-> "ok",
                     error |-> None, sent |-> <<request>>]
              [] outcome.kind = "status" ->
                    [success |-> FALSE, response |-> <<>>, kind |-> "status",
                     error |-> <<"API Error ">> \o outcome.text, sent |-> <<request>>]
              [] outcome.kind = "timeout" ->
                    [success |-> FALSE, response |-> <<>>, kind |-> "timeout",
                     error |-> <<"Request timed out. Please try again.">>, sent |-> <<request>>]
              [] OTHER ->
                    [success |-> FALSE, response |-> <<>>, kind |-> "exception",
                     error |-> <<"LLM Error: ">> \o outcome.text, sent |-> <<request>>]

\* LLMEngine.generate_response (max_tokens is ask_llm's default)
generate_response(engine, user_query, context, conversation_history, temperature, mode, outcome) ==
    ask_llm(engine, build_prompt(user_query, context, conversation_history, mode),
            temperature, <<"500">>, outcome)

\* LLMEngine.get_fallback_response
get_fallback_response(user_query) ==
    <<"I apologize, but I'm having trouble processing your request right now.",
      "Your question was: \"">> \o user_query
      \o <<"\".\nPlease try rephrasing your question or contact support.">>

(***************************************************************************)
(* backend/rag_engine.py: initialize                                       *)
(***************************************************************************)
ModelName == <<"all-MiniLM-L6-v2">>

\* The sentence encoder on the texts of the model: a fixed function of the text.
Encode(text) ==
    IF IsSubSeq(<<"reset", "password">>, text) THEN <<4, 3>>
    ELSE IF IsSubSeq(<<"refund">>, text) THEN <<4, -3>>
    ELSE IF IsSubSeq(<<"hi">>, text) THEN <<5, 0>>
    ELSE <<0, 5>>

\* the numbers of a matrix, row after row
RECURSIVE Flatten(_)
Flatten(rows) == IF rows = <<>> THEN <<>> ELSE Head(rows) \o Flatten(Tail(rows))

\* the mutant of UnpickleArray: the matrix is read back without its last row
UnpickleArrayShort(p) ==
    [is_none |-> FALSE,
     rows |-> IF Len(p.shape) = 1 THEN <<>>
              ELSE [i \in 1..(p.shape[1] - 1) |->
                       SubSeq(p.data, (i - 1) * p.shape[2] + 1, i * p.shape[2])]]

\* pickle.dump of self.embeddings: None, or the shape of the array and its numbers
\* in one buffer. np.array([]) has the shape (0,).
PickleArray(emb) ==
    IF emb.is_none THEN [is_none |-> TRUE, shape |-> <<>>, data |-> <<>>]
    ELSE [is_none |-> FALSE,
          shape |-> (IF emb.rows = <<>> THEN <<0>> ELSE <<Len(emb.rows), Len(emb.rows[1])>>),
          data |-> Flatten(emb.rows)]

\* pickle.load of an array: the buffer cut into rows by the shape
UnpickleArray(p) ==
    [is_none |-> FALSE,
     rows |-> IF Len(p.shape) = 1 THEN <<>>
              ELSE [i \in 1..p.shape[1] |->
                       SubSeq(p.data, (i - 1) * p.shape[2] + 1, i * p.shape[2])]]

\* pickle.load of what pickle.dump wrote of self.embeddings
Unpickle(p) == IF p.is_none THEN [is_none |-> TRUE, rows |-> <<>>] ELSE UnpickleArray(p)

\* vectors.pkl as _save_vector_store writes it: the pickled dict of the embeddings,
\* the documents (a list of dicts of texts, pickled value by value) and the model name
Snapshot(model_name, emb, docs) ==
    [kind |-> "snapshot", model_name |-> model_name, embeddings |-> PickleArray(emb),
     documents |-> docs]

\* a vectors.pkl that unpickles to a dict without the key "documents"
TruncatedFile(model_name, emb) ==
    [kind |-> "truncated", model_name |-> model_name, embeddings |-> PickleArray(emb)]

NoFile == [kind |-> "absent"]

\* a JSON file of records, and a missing one
JsonFile(records) == [present |-> TRUE, records |-> records]
NoJsonFile == [present |-> FALSE, records |-> <<>>]
CorruptFile == [kind |-> "corrupt"]

\* KnowledgeBase.load_data (backend/database.py) on the files fs: the knowledge base after the call
LoadData(k, files) ==
    IF ~files.faqs.present THEN [k EXCEPT !.ok = FALSE]
    ELSE IF ~files.policies.present THEN [k EXCEPT !.ok = FALSE, !.faqs = files.faqs.records]
    ELSE [ok |-> TRUE, faqs |-> files.faqs.records, policies |-> files.policies.records,
          all_documents |-> PrepareDocuments(files.faqs.records, files.policies.records)]

\* the mutant of LoadVectorStore: a snapshot is loaded whatever model wrote it
LoadVectorStoreAnyModel(file, emb, docs) ==
    IF file.kind \in {"absent", "corrupt"} THEN <<FALSE, emb, docs>>
    ELSE IF file.kind = "truncated" THEN <<FALSE, Unpickle(file.embeddings), docs>>
    ELSE <<TRUE, Unpickle(file.embeddings), file.documents>>

\* RAGEngine._load_vector_store: <<loaded, embeddings, documents>>. A missing file, a
\* file that does not unpickle and a file of another model leave both fields alone; a
\* dict without "documents" raises KeyError after self.embeddings has been assigned.
LoadVectorStore(file, emb, docs) ==
    IF file.kind \in {"absent", "corrupt"} THEN <<FALSE, emb, docs>>
    ELSE IF file.model_name # ModelName THEN <<FALSE, emb, docs>>
    ELSE IF file.kind = "truncated" THEN <<FALSE, Unpickle(file.embeddings), docs>>
    ELSE <<TRUE, Unpickle(file.embeddings), file.documents>>

\* what initialize finds at vector_store_path
FileKind(file) ==
    IF file.kind \in {"absent", "corrupt"} THEN file.kind
    ELSE IF file.model_name # ModelName THEN "mismatch"
    ELSE IF file.kind = "truncated" THEN "corrupt"
    ELSE "match"

\* RAGEngine._build_vector_store, when encoding does not fail
BuildVectorStore(docs) ==
    [is_none |-> FALSE, rows |-> [i \in 1..Len(docs) |-> Encode(docs[i].content)]]

(***************************************************************************)
(* State                                                                   *)
(***************************************************************************)
memvars == <<max_messages, conversations, analytics_log, added>>
ragvars == <<rag_model, embeddings, documents>>
appvars == <<phase, fs, kb, llm_engine, environ, llm_out, issued, exchanged, chat_out, init_out,
            reply, announced>>
servevars == <<loop, pending, started>>
vars == <<max_messages, conversations, analytics_log, added,
          rag_model, embeddings, documents, search_out,
          phase, fs, kb, llm_engine, environ, llm_out, issued, exchanged, chat_out, init_out,
          reply, announced, loop, pending, started, last_op, n_ops>>

NoOp == [op |-> "none", session_id |-> "", known |-> FALSE]
NoSearch == [ran |-> FALSE]
NoChat == [ran |-> FALSE]
NoInit == [ran |-> FALSE]
NoCall == [ran |-> FALSE]
NoReply == [op |-> "none", status |-> 0]

\* the response of DELETE /clear_session/{session_id}
SessionCleared == [op |-> "clear_session", status |-> 200, message |-> <<"session cleared">>]
Idle == [busy |-> FALSE]
NoEmbeddings == [is_none |-> TRUE, rows |-> <<>>]
NoFiles == [faqs |-> NoJsonFile, policies |-> NoJsonFile, vectors |-> NoFile]

\* KnowledgeBase.__init__
EmptyKb == [ok |-> FALSE, faqs |-> <<>>, policies |-> <<>>, all_documents |-> <<>>]

\* ConversationMemory.__init__
MemoryConstructed(capacity) ==
    /\ max_messages = capacity
    /\ conversations = <<>>
    /\ analytics_log = <<>>
    /\ added = <<>>

\* RAGEngine.__init__
RagConstructed ==
    /\ rag_model = "None"
    /\ embeddings = NoEmbeddings
    /\ documents = <<>>
    /\ kb = EmptyKb

\* the parts of the state the application adds, where no application runs
NoApp ==
    /\ phase = "library"
    /\ fs = NoFiles
    /\ environ = None
    /\ llm_engine = LLMEngine("groq", environ)
    /\ llm_out = NoCall
    /\ issued = {}
    /\ exchanged = <<>>
    /\ chat_out = NoChat
    /\ init_out = NoInit
    /\ reply = NoReply
    /\ announced = <<>>
    /\ loop = Idle
    /\ pending = {}
    /\ started = <<>>

(***************************************************************************)
(* Operations of a ConversationMemory                                      *)
(***************************************************************************)
add_message(session_id, role, content, metadata) ==
    /\ conversations' = AddToConversations(conversations, session_id, role, content, metadata)
    /\ analytics_log' = AddToAnalytics(analytics_log, session_id, role, content, metadata)
    /\ added' = AddToAdded(added, session_id, role, content, metadata)
    /\ last_op' = [op |-> "add_message", session_id |-> session_id,
                   known |-> session_id \in DOMAIN conversations]
    /\ n_ops' = n_ops + 1
    /\ UNCHANGED <<max_messages, ragvars, search_out, appvars, servevars>>

\* ConversationMemory.clear_session, which is all the DELETE /clear_session handler does
clear_session(session_id) ==
    /\ conversations' = ClearConversations(conversations, session_id)
    /\ added' = (IF session_id \in DOMAIN added THEN DictDel(added, session_id) ELSE added)
    /\ exchanged' = (IF session_id \in DOMAIN exchanged
                        THEN DictDel(exchanged, session_id) ELSE exchanged)
    /\ last_op' = [op |-> "clear_session", session_id |-> session_id,
                   known |-> session_id \in DOMAIN conversations]
    /\ n_ops' = n_ops + 1
    /\ UNCHANGED <<max_messages, analytics_log, ragvars, search_out,
                   phase, fs, kb, llm_engine, environ, llm_out, issued, chat_out, init_out,
                   announced>>

AddMessage ==
    /\ n_ops < MaxOps
    /\ \E s \in Sessions, r \in Roles, c \in Messages, m \in Metadatas :
          add_message(s, r, c, m)

ClearSession ==
    /\ n_ops < MaxOps
    /\ \E s \in Sessions : clear_session(s)
    /\ UNCHANGED <<servevars, reply>>

\* ConversationMemory(max_messages=N), as memory.py's own test constructs one
InitMemory ==
    /\ \E capacity \in 1..MaxCapacity : MemoryConstructed(capacity)
    /\ RagConstructed
    /\ NoApp
    /\ search_out = NoSearch
    /\ last_op = NoOp
    /\ n_ops = 0

NextMemory == AddMessage \/ ClearSession

SpecMemory == InitMemory /\ [][NextMemory]_vars

(***************************************************************************)
(* Retrieval over an index                                                 *)
(***************************************************************************)
TopKs == (-1)..(MaxDocs + 1)

\* one call of RAGEngine.retrieve_context(query, top_k)
retrieve_context(enc, top_k) ==
    /\ \E results \in RetrieveContext(rag_model, embeddings, documents, enc, top_k) :
          search_out' = [ran |-> TRUE, enc |-> enc, top_k |-> top_k, results |-> results]
    /\ last_op' = [op |-> "retrieve_context", session_id |-> "", known |-> FALSE]
    /\ UNCHANGED <<memvars, ragvars, appvars, servevars, n_ops>>

\* retrieve_context changes nothing of the index: one call from each index covers every call
Search ==
    /\ ~search_out.ran
    /\ \E enc \in EncodeOutcomes, top_k \in TopKs : retrieve_context(enc, top_k)

\* an index as initialize leaves it: never built, or built over a corpus, one
\* vector for each document
IndexStates ==
    {[model |-> m, embeddings |-> NoEmbeddings, documents |-> <<>>] : m \in {"None", "loaded"}}
    \cup
    UNION {{[model |-> "loaded", embeddings |-> [is_none |-> FALSE, rows |-> rows], documents |-> c] :
               rows \in [1..Len(c) -> Vectors]} : c \in Corpora}

InitSearch ==
    /\ MemoryConstructed(1)
    /\ \E ix \in IndexStates :
          /\ rag_model = ix.model
          /\ embeddings = ix.embeddings
          /\ documents = ix.documents
    /\ kb = EmptyKb
    /\ NoApp
    /\ search_out = NoSearch
    /\ last_op = NoOp
    /\ n_ops = 0

NextSearch == Search

SpecSearch == InitSearch /\ [][NextSearch]_vars

(***************************************************************************)
(* backend/app.py: the application                                         *)
(***************************************************************************)
NoSession == "<None>"                \* a request without session_id
Uuids == <<"u1", "u2", "u3", "u4">>  \* what str(uuid.uuid4()) gives, call after call
ChatSessions == {NoSession, "s1"}

\* the request bodies of the model (session_id apart)
ChatRequests ==
    {[message |-> <<"hi">>, include_context |-> TRUE, top_k |-> 3, mode |-> "default"],
     [message |-> <<"reset", "password">>, include_context |-> TRUE, top_k |-> 1,
      mode |-> "business"],
     [message |-> <<"hi">>, include_context |-> TRUE, top_k |-> 0, mode |-> "education"],
     [message |-> <<"reset", "password">>, include_context |-> TRUE, top_k |-> -1,
      mode |-> "casual"],
     [message |-> <<"hi">>, include_context |-> FALSE, top_k |-> 3, mode |-> "default"]}

\* RAGEngine.initialize: it loads the encoder (or loading it raises), reads the
\* knowledge base and takes its documents, and loads the vector store or else builds
\* it (encoding may raise) and saves it (writing may raise). Every exception is caught
\* and gives False.
initialize(failure) ==
    IF failure = "encoder"
    THEN /\ UNCHANGED <<rag_model, kb, documents, embeddings, fs>>
         /\ init_out' = [ran |-> TRUE, reached |-> "encoder", found |-> FileKind(fs.vectors),
                         kb_before |-> kb, loaded |-> FALSE, built |-> FALSE,
                         saved |-> FALSE, ok |-> FALSE]
    ELSE /\ rag_model' = "loaded"
         /\ kb' = LoadData(kb, fs)
         /\ IF ~kb'.ok
            THEN /\ UNCHANGED <<documents, embeddings, fs>>
                 /\ init_out' = [ran |-> TRUE, reached |-> "load_data",
                                 found |-> FileKind(fs.vectors), kb_before |-> kb,
                                 loaded |-> FALSE, built |-> FALSE, saved |-> FALSE,
                                 ok |-> FALSE]
            ELSE LET loaded == LoadVectorStore(fs.vectors, embeddings, kb'.all_documents)
                     built == ~loaded[1] /\ (loaded[3] = <<>> \/ failure # "encode")
                     saved == built /\ failure # "save"
                 IN  /\ documents' = loaded[3]
                     /\ embeddings' =
                           (IF ~built THEN loaded[2]
                            ELSE IF documents' = <<>> THEN [is_none |-> FALSE, rows |-> <<>>]
                            ELSE BuildVectorStore(documents'))
                     /\ fs' = (IF saved
                                  THEN [fs EXCEPT !.vectors =
                                           Snapshot(ModelName, embeddings', documents')]
                                  ELSE fs)
                     /\ init_out' = [ran |-> TRUE, reached |-> "vector_store",
                                     found |-> FileKind(fs.vectors), kb_before |-> kb,
                                     loaded |-> loaded[1], built |-> built, saved |-> saved,
                                     ok |-> loaded[1] \/ saved]

\* startup_event: it calls rag_engine.initialize() and does not look at the result. The
\* ping that it then sends to the completion service changes no state.
startup_event(failure) ==
    /\ phase = "constructed"
    /\ phase' = "serving"
    /\ last_op' = [op |-> "startup", session_id |-> "", known |-> FALSE]
    /\ initialize(failure)
    /\ announced' = <<"RAG Engine OK", "API READY">>
    /\ UNCHANGED <<memvars, search_out, llm_engine, environ, llm_out, issued, exchanged,
                   chat_out, servevars, reply, n_ops>>

Startup == \E failure \in {"none", "encoder", "encode"} : startup_event(failure)

\* the time the handler has taken when it reads the clock after the completion call
Elapsed(llm_result) == IF llm_result.kind = "timeout" THEN <<"30">> ELSE <<"0">>

\* the mutant of ChatHistory: the transcript is formatted after the user message has been stored
ChatHistoryAfterUpdate(session_id, message) ==
    format_history_for_prompt(
        AddToConversations(conversations, session_id, "user", message, None), session_id, 5)

\* step 1 of chat: the transcript of the session as memory holds it when the handler starts
ChatHistory(session_id, message) ==
    format_history_for_prompt(conversations, session_id, 5)

\* the mutant of ChatContext: the context is formatted also when it is not asked for
ChatContextAlways(include_context, enc, top_k) ==
    get_relevant_context(rag_model, embeddings, documents, enc, top_k)

\* steps 2 of chat: the (context_str, docs) pairs it can end with
ChatContext(include_context, enc, top_k) ==
    IF include_context
        THEN get_relevant_context(rag_model, embeddings, documents, enc, top_k)
        ELSE {<< <<>>, <<>> >>}

\* the mutant of BotResponse: a failed generation answers with the error text
BotResponseError(llm_result, message) ==
    IF ~llm_result.success THEN llm_result.error ELSE llm_result.response

\* the response text chat answers with
BotResponse(llm_result, message) ==
    IF ~llm_result.success THEN get_fallback_response(message) ELSE llm_result.response

\* step 5 of chat: the analytics log after both log_message calls
ChatLog(log, session_id, message, bot_response, docs, processing_time) ==
    LogMessage(LogMessage(log, session_id, "user", message, Len(docs), <<>>, None),
               session_id, "assistant", bot_response, Len(docs), processing_time, None)

\* the mutant of ErrorResponse: the envelope of a request that succeeded, with the message of the exception as its text
ErrorResponseAsSuccess(session_id, processing_time, e) ==
    [success |-> TRUE, response |-> ExceptionText(e), session_id |-> session_id,
     processing_time |-> processing_time, context_used |-> 0, error |-> None]

\* the except branch of chat: the ChatResponse it returns for the exception e
ErrorResponse(session_id, processing_time, e) ==
    [success |-> FALSE, response |-> <<"Internal error.">>, session_id |-> session_id,
     processing_time |-> processing_time, context_used |-> 0, error |-> ExceptionText(e)]

\* the completion call of a request that did not get to it
NotCalled == [success |-> FALSE, kind |-> "not called", response |-> <<>>, error |-> None,
              sent |-> 0]

\* POST /chat. An exception of get_relevant_context ends the handler in its except
\* branch, before the completion call and before anything is stored.
\* the mutant of MemoryAtRaise: the user message is stored before the context is retrieved
MemoryAtRaiseAfterUpdate(convs, session_id, message) ==
    AddToConversations(convs, session_id, "user", message, None)

\* the conversations when step 2 of chat raises: step 4, which stores the messages, comes
\* after it and has not run
MemoryAtRaise(convs, session_id, message) == convs

chat(session_id, message, include_context, top_k, mode, outcome, enc) ==
    /\ phase = "serving"
    /\ \E history \in {ChatHistory(session_id, message)},
          pair \in ChatContext(include_context, enc, top_k) :
        IF IsRaise(pair[1])
        THEN
        /\ conversations' = MemoryAtRaise(conversations, session_id, message)
        /\ UNCHANGED <<analytics_log, added, exchanged>>
        /\ chat_out' =
             [ran |-> TRUE, raised |-> TRUE, message |-> message,
              include_context |-> include_context,
              top_k |-> top_k, mode |-> mode, enc |-> enc,
              history |-> history, context |-> <<>>, docs |-> <<>>,
              prompt |-> << <<>>, <<>> >>, llm |-> NotCalled,
              previous |-> (IF session_id \in DOMAIN exchanged
                               THEN <<exchanged[session_id]>> ELSE <<>>),
              log_before |-> Len(analytics_log),
              response |-> ErrorResponse(session_id, <<"0">>, pair[1])]
        ELSE
        \E llm_result \in {generate_response(llm_engine, message, pair[1], history,
                                             <<"0.4">>, mode, outcome)} :
        \E bot_response \in {BotResponse(llm_result, message)} :
        LET context_str == pair[1]
            docs == pair[2]
            conv1 == AddToConversations(conversations, session_id, "user", message, None)
            log1 == AddToAnalytics(analytics_log, session_id, "user", message, None)
            conv2 == AddToConversations(conv1, session_id, "assistant", bot_response, None)
            log2 == AddToAnalytics(log1, session_id, "assistant", bot_response, None)
        IN  /\ conversations' = conv2
            /\ analytics_log' = ChatLog(log2, session_id, message, bot_response, docs,
                                        Elapsed(llm_result))
            /\ added' = AddToAdded(AddToAdded(added, session_id, "user", message, None),
                                   session_id, "assistant", bot_response, None)
            /\ exchanged' = DictSet(exchanged, session_id,
                                    [user |-> message, assistant |-> bot_response])
            /\ chat_out' =
                 [ran |-> TRUE, raised |-> FALSE, message |-> message,
                  include_context |-> include_context,
                  top_k |-> top_k, mode |-> mode, enc |-> enc,
                  history |-> history, context |-> context_str,
                  docs |-> [i \in 1..Len(docs) |->
                              [index |-> docs[i].index, id |-> docs[i].document.id,
                               score |-> docs[i].score, rank |-> docs[i].rank]],
                  prompt |-> build_prompt(message, context_str, history, mode),
                  llm |-> [success |-> llm_result.success, kind |-> llm_result.kind,
                           response |-> llm_result.response, error |-> llm_result.error,
                           sent |-> Len(llm_result.sent)],
                  previous |-> (IF session_id \in DOMAIN exchanged
                                   THEN <<exchanged[session_id]>> ELSE <<>>),
                  log_before |-> Len(analytics_log),
                  response |-> [success |-> TRUE, response |-> bot_response,
                                session_id |-> session_id,
                                processing_time |-> Elapsed(llm_result),
                                context_used |-> Len(docs), error |-> None]]
    /\ last_op' = [op |-> "chat", session_id |-> session_id,
                   known |-> session_id \in DOMAIN conversations]
    /\ n_ops' = n_ops + 1
    /\ UNCHANGED <<max_messages, ragvars, search_out, phase, fs, kb, llm_engine, environ,
                   llm_out, init_out, reply, announced>>

\* POST /chat with the session id of the request, or a new uuid when it has none.
\* The encoder is called only when the request asks for context.
Chat ==
    /\ n_ops < MaxRequests
    /\ \E sid \in ChatSessions, r \in ChatRequests, outcome \in ServiceOutcomes :
        \E enc \in (IF r.include_context THEN {Encode(r.message), EncodeFails}
                                         ELSE {Encode(r.message)}) :
          IF sid = NoSession
          THEN /\ Cardinality(issued) < Len(Uuids)
               /\ issued' = issued \cup {Uuids[Cardinality(issued) + 1]}
               /\ chat(Uuids[Cardinality(issued) + 1], r.message, r.include_context,
                       r.top_k, r.mode, outcome, enc)
          ELSE /\ UNCHANGED issued
               /\ chat(sid, r.message, r.include_context, r.top_k, r.mode, outcome, enc)
    /\ UNCHANGED servevars

\* DELETE /clear_session/{session_id}
ClearRequest ==
    /\ phase = "serving"
    /\ n_ops < MaxRequests
    /\ \E s \in {"s1", Uuids[1]} : clear_session(s)
    /\ reply' = SessionCleared
    /\ UNCHANGED servevars

\* the files a deployment starts with: no FAQ file; an empty corpus; a corpus
\* beside a vector store of another encoder; a corpus beside its vector store
Deployments ==
    {[faqs |-> NoJsonFile, policies |-> JsonFile(<<P1>>), vectors |-> NoFile],
     [faqs |-> JsonFile(<<>>), policies |-> JsonFile(<<>>), vectors |-> NoFile],
     [faqs |-> JsonFile(<<F1, F2>>), policies |-> JsonFile(<<P1>>),
      vectors |-> Snapshot(<<"other-model">>, BuildVectorStore(PrepareDocuments(<<F1>>, <<>>)),
                           PrepareDocuments(<<F1>>, <<>>))],
     [faqs |-> JsonFile(<<F2, F3>>), policies |-> JsonFile(<<>>),
      vectors |-> Snapshot(ModelName, BuildVectorStore(PrepareDocuments(<<F2, F3>>, <<>>)),
                           PrepareDocuments(<<F2, F3>>, <<>>))]}

\* the module-level instances of memory.py, rag_engine.py and llm_engine.py
Init ==
    /\ MemoryConstructed(10)
    /\ RagConstructed
    /\ phase = "constructed"
    /\ fs \in Deployments
    /\ environ = None
    /\ llm_engine = LLMEngine("groq", environ)
    /\ llm_out = NoCall
    /\ issued = {}
    /\ exchanged = <<>>
    /\ chat_out = NoChat
    /\ init_out = NoInit
    /\ reply = NoReply
    /\ announced = <<>>
    /\ loop = Idle
    /\ pending = {}
    /\ started = <<>>
    /\ search_out = NoSearch
    /\ last_op = NoOp
    /\ n_ops = 0

Next == Startup \/ Chat \/ ClearRequest

Spec == Init /\ [][Next]_vars

(***************************************************************************)
(* A RAGEngine used as a library: initialize, called again and again over  *)
(* data files and a vector store that change between the calls             *)
(***************************************************************************)
\* contents of data/faqs.json, data/policies.json and models/vector_store/vectors.pkl
FaqFiles == {NoJsonFile, JsonFile(<<>>), JsonFile(<<F1>>), JsonFile(<<F1, F2>>)}
PolicyFiles == {NoJsonFile, JsonFile(<<>>), JsonFile(<<P1>>)}
VectorFiles ==
    {NoFile, CorruptFile,
     TruncatedFile(ModelName, BuildVectorStore(PrepareDocuments(<<F1>>, <<>>))),
     Snapshot(<<"other-model">>, BuildVectorStore(PrepareDocuments(<<F1>>, <<>>)),
              PrepareDocuments(<<F1>>, <<>>)),
     Snapshot(ModelName, BuildVectorStore(PrepareDocuments(<<F1>>, <<>>)),
              PrepareDocuments(<<F1>>, <<>>))}

InitFailures == {"none", "encoder", "encode", "save"}

\* rag_engine.initialize(), as the test of rag_engine.py calls it
Initialize ==
    /\ n_ops < MaxRuns
    /\ \E failure \in InitFailures : initialize(failure)
    /\ last_op' = [op |-> "initialize", session_id |-> "", known |-> FALSE]
    /\ n_ops' = n_ops + 1
    /\ UNCHANGED <<memvars, search_out, phase, llm_engine, environ, llm_out, issued, exchanged, chat_out,
                   servevars, reply, announced>>

\* between two calls, one of the files is written, replaced or removed
FilesChange ==
    /\ last_op.op = "initialize"
    /\ n_ops < MaxRuns
    /\ \/ \E f \in FaqFiles : fs' = [fs EXCEPT !.faqs = f]
       \/ \E f \in PolicyFiles : fs' = [fs EXCEPT !.policies = f]
       \/ \E f \in VectorFiles : fs' = [fs EXCEPT !.vectors = f]
    /\ fs' # fs
    /\ last_op' = [op |-> "files", session_id |-> "", known |-> FALSE]
    /\ UNCHANGED <<memvars, ragvars, search_out, phase, kb, llm_engine, environ, llm_out, issued, exchanged,
                   chat_out, init_out, servevars, reply, announced, n_ops>>

\* the process ends and a new one starts: a new RAGEngine over the same files
Restart ==
    /\ last_op.op = "initialize"
    /\ n_ops < MaxRuns
    /\ rag_model' = "None"
    /\ embeddings' = NoEmbeddings
    /\ documents' = <<>>
    /\ kb' = EmptyKb
    /\ last_op' = [op |-> "restart", session_id |-> "", known |-> FALSE]
    /\ UNCHANGED <<memvars, search_out, phase, fs, llm_engine, environ, llm_out, issued, exchanged,
                   chat_out, init_out, servevars, reply, announced, n_ops>>

InitIndex ==
    /\ MemoryConstructed(10)
    /\ RagConstructed
    /\ phase = "library"
    /\ fs \in [faqs : FaqFiles, policies : PolicyFiles, vectors : VectorFiles]
    /\ environ = None
    /\ llm_engine = LLMEngine("groq", environ)
    /\ llm_out = NoCall
    /\ issued = {}
    /\ exchanged = <<>>
    /\ chat_out = NoChat
    /\ init_out = NoInit
    /\ reply = NoReply
    /\ announced = <<>>
    /\ loop = Idle
    /\ pending = {}
    /\ started = <<>>
    /\ search_out = NoSearch
    /\ last_op = NoOp
    /\ n_ops = 0

NextIndex == Initialize \/ FilesChange \/ Restart

SpecIndex == InitIndex /\ [][NextIndex]_vars

(***************************************************************************)
(* The application serving concurrent requests. The handlers are           *)
(* coroutines of one event loop: chat has no await, so a handler that has  *)
(* started runs to its end before another one starts, and the thread of    *)
(* the loop stays inside requests.post until the completion service has    *)
(* answered or the timeout has passed.                                      *)
(***************************************************************************)
ServeSessions == {"s1", "s2"}

\* the request bodies of the model
ServeRequests ==
    {[session_id |-> sid, message |-> <<"hi">>, include_context |-> TRUE, top_k |-> 1,
      mode |-> "default"] : sid \in ServeSessions}
    \cup
    {[session_id |-> sid, message |-> <<"reset", "password">>, include_context |-> FALSE,
      top_k |-> 3, mode |-> "business"] : sid \in ServeSessions}

\* the requests that a client has sent and that are not answered yet
InFlight == Cardinality(pending) + (IF loop.busy THEN 1 ELSE 0)

\* a client sends POST /chat; the request waits for the event loop
Submit ==
    /\ InFlight + n_ops < MaxRequests
    /\ \E r \in ServeRequests :
          pending' = pending \cup {[id |-> InFlight + n_ops + 1, request |-> r]}
    /\ last_op' = [op |-> "submit", session_id |-> "", known |-> FALSE]
    /\ UNCHANGED <<memvars, ragvars, search_out, appvars, loop, started, n_ops>>

\* what encoding the query of a request can give
QueryEncodings(r) ==
    IF r.include_context THEN {Encode(r.message), EncodeFails} ELSE {Encode(r.message)}

\* the event loop starts the handler of a waiting request, which runs up to
\* requests.post (llm_engine.py) and stays there
BeginChat(p) ==
    /\ phase = "serving"
    /\ ~loop.busy
    /\ p \in pending
    /\ \E enc \in QueryEncodings(p.request) :
          /\ \E pair \in ChatContext(p.request.include_context, enc, p.request.top_k) :
                ~IsRaise(pair[1])
          /\ loop' = [busy |-> TRUE, id |-> p.id, request |-> p.request, enc |-> enc]
    /\ pending' = pending \ {p}
    /\ started' = Append(started, [id |-> p.id, session_id |-> p.request.session_id,
                                    waiting |-> {q.id : q \in pending'}])
    /\ last_op' = [op |-> "begin_chat", session_id |-> p.request.session_id, known |-> FALSE]
    /\ UNCHANGED <<memvars, ragvars, search_out, appvars, n_ops>>

\* requests.post returns or raises, and the handler runs to its end
EndChat ==
    /\ loop.busy
    /\ \E outcome \in ServiceOutcomes :
          chat(loop.request.session_id, loop.request.message, loop.request.include_context,
               loop.request.top_k, loop.request.mode, outcome, loop.enc)
    /\ ~chat_out'.raised
    /\ loop' = Idle
    /\ UNCHANGED <<issued, pending, started>>

\* the event loop runs the handler of a waiting request, and the handler ends in
\* its except branch before it gets to requests.post
FailChat(p) ==
    /\ ~loop.busy
    /\ p \in pending
    /\ \E enc \in QueryEncodings(p.request) :
          chat(p.request.session_id, p.request.message, p.request.include_context,
               p.request.top_k, p.request.mode, CHOOSE o \in ServiceOutcomes : TRUE, enc)
    /\ chat_out'.raised
    /\ pending' = pending \ {p}
    /\ started' = Append(started, [id |-> p.id, session_id |-> p.request.session_id,
                                    waiting |-> {q.id : q \in pending'}])
    /\ UNCHANGED <<issued, loop>>

\* the event loop runs the handler of one waiting request
HandleChat == \E p \in pending : BeginChat(p) \/ FailChat(p)

\* DELETE /clear_session/{session_id}, when the event loop is free
ServeClear ==
    /\ phase = "serving"
    /\ ~loop.busy
    /\ InFlight + n_ops < MaxRequests
    /\ \E s \in ServeSessions : clear_session(s)
    /\ reply' = SessionCleared
    /\ UNCHANGED servevars

\* the index of a deployment that serves: built of two FAQ records, or loaded of a
\* vectors.pkl of the configured model whose documents lack the key "type"
ServeIndexes ==
    {[documents |-> PrepareDocuments(<<F1, F2>>, <<>>),
      embeddings |-> BuildVectorStore(PrepareDocuments(<<F1, F2>>, <<>>))],
     [documents |-> << [FaqDoc(F1) EXCEPT !.type = Absent] >>,
      embeddings |-> BuildVectorStore(PrepareDocuments(<<F1>>, <<>>))]}

InitServe ==
    /\ MemoryConstructed(10)
    /\ rag_model = "loaded"
    /\ \E ix \in ServeIndexes :
          /\ documents = ix.documents
          /\ embeddings = ix.embeddings
    /\ kb = LoadData(EmptyKb, [faqs |-> JsonFile(<<F1, F2>>), policies |-> JsonFile(<<>>),
                               vectors |-> NoFile])
    /\ fs = NoFiles
    /\ phase = "serving"
    /\ environ = None
    /\ llm_engine = LLMEngine("groq", environ)
    /\ llm_out = NoCall
    /\ issued = {}
    /\ exchanged = <<>>
    /\ chat_out = NoChat
    /\ init_out = NoInit
    /\ reply = NoReply
    /\ announced = <<>>
    /\ loop = Idle
    /\ pending = {}
    /\ started = <<>>
    /\ search_out = NoSearch
    /\ last_op = NoOp
    /\ n_ops = 0

NextServe == Submit \/ HandleChat \/ EndChat \/ ServeClear

SpecServe == InitServe /\ [][NextServe]_vars

(***************************************************************************)
(* An LLMEngine used as a library: LLMEngine(provider) under an            *)
(* environment, and generate_response called on it                          *)
(***************************************************************************)
Providers == {"groq", "openai", "local"}
EnvKeys == {None, <<>>, <<"sk-env">>}
Modes == {"default", "business", "education"}

\* llm_engine.generate_response(user_query, context, conversation_history, mode=mode)
Generate ==
    /\ ~llm_out.ran
    /\ \E q \in Messages, context \in {<<>>, NoRelevantInformation},
          history \in {None, <<>>, StartOfConversation}, mode \in Modes,
          outcome \in ServiceOutcomes :
          \E result \in {generate_response(llm_engine, q, context, history, <<"0.7">>,
                                            mode, outcome)} :
            llm_out' = [ran |-> TRUE, user_query |-> q, context |-> context,
                        conversation_history |-> history, mode |-> mode,
                        prompt |-> build_prompt(q, context, history, mode),
                        outcome |-> outcome.kind,
                        result |-> [success |-> result.success, response |-> result.response,
                                    error |-> result.error],
                        sent |-> Len(result.sent)]
    /\ last_op' = [op |-> "generate_response", session_id |-> "", known |-> FALSE]
    /\ UNCHANGED <<memvars, ragvars, search_out, phase, fs, kb, llm_engine, environ, issued,
                   exchanged, chat_out, init_out, servevars, reply, announced, n_ops>>

\* LLMEngine(provider=...), constructed under an environment
InitLLM ==
    /\ MemoryConstructed(10)
    /\ RagConstructed
    /\ phase = "library"
    /\ fs = NoFiles
    /\ environ \in EnvKeys
    /\ \E provider \in Providers : llm_engine = LLMEngine(provider, environ)
    /\ llm_out = NoCall
    /\ issued = {}
    /\ exchanged = <<>>
    /\ chat_out = NoChat
    /\ init_out = NoInit
    /\ reply = NoReply
    /\ announced = <<>>
    /\ loop = Idle
    /\ pending = {}
    /\ started = <<>>
    /\ search_out = NoSearch
    /\ last_op = NoOp
    /\ n_ops = 0

NextLLM == Generate

SpecLLM == InitLLM /\ [][NextLLM]_vars

(***************************************************************************)
(* C1: a session history never holds more than max_messages messages, and  *)
(* it is always the last max_messages messages added to the session (all   *)
(* of them while there are fewer), in the order they were added.            *)
(***************************************************************************)
C1_SlidingWindow ==
    /\ DOMAIN conversations = DOMAIN added
    /\ \A s \in DOMAIN conversations :
          /\ Len(conversations[s]) <= max_messages
          /\ get_conversation_history(conversations, s) = LastN(added[s], max_messages)

\* a session that received more messages than the capacity, the last two of them different
C1_Witness ==
    \E s \in DOMAIN conversations :
        /\ Len(added[s]) > max_messages
        /\ max_messages >= 2
        /\ added[s][1] # added[s][Len(added[s])]
        /\ conversations[s][1] # conversations[s][2]

(***************************************************************************)
(* C8: clear_session removes the history of the given session and nothing  *)
(* else: the analytics log and every other session's history are the same  *)
(* after the call, and clearing an unknown session changes nothing.         *)
(***************************************************************************)
C8_ClearFrame ==
    [][\A s \in Sessions :
          clear_session(s) =>
              /\ s \notin DOMAIN conversations'
              /\ analytics_log' = analytics_log
              /\ \A t \in Sessions \ {s} :
                    /\ (t \in DOMAIN conversations') = (t \in DOMAIN conversations)
                    /\ get_conversation_history(conversations', t)
                         = get_conversation_history(conversations, t)
              /\ (s \notin DOMAIN conversations => conversations' = conversations)]_vars

\* a known session was just cleared while another session and analytics records of both exist
C8_Witness ==
    /\ last_op.op = "clear_session"
    /\ last_op.known
    /\ \E t \in DOMAIN conversations : t # last_op.session_id /\ conversations[t] # <<>>
    /\ \E i \in 1..Len(analytics_log) : analytics_log[i].session_id = last_op.session_id

\* an unknown session was just cleared while another session exists
C8_WitnessUnknown ==
    /\ last_op.op = "clear_session"
    /\ ~last_op.known
    /\ conversations # <<>>
    /\ analytics_log # <<>>

(***************************************************************************)
(* C4 (as claimed): for k >= 1 and a non-empty corpus of n documents,      *)
(* search returns exactly min(k, n) results, no document id twice, scores  *)
(* non-increasing, ranks 1..min(k, n), and no document left out scores     *)
(* higher than a returned one.                                             *)
(***************************************************************************)
Min(a, b) == IF a <= b THEN a ELSE b

\* the results are the m best of the index, in order, each position once
RankedTopM(results, m) ==
    LET similarities == cosine_similarity(search_out.enc, embeddings.rows)
        returned == {results[i].index : i \in 1..Len(results)}
    IN  /\ Len(results) = m
        /\ \A i, j \in 1..Len(results) : i # j => results[i].index # results[j].index
        /\ \A i \in 1..(Len(results) - 1) : results[i].score >= results[i + 1].score
        /\ \A i \in 1..Len(results) :
              /\ results[i].rank = i
              /\ results[i].score = similarities[results[i].index]
              /\ results[i].document = documents[results[i].index]
        /\ \A d \in (1..Len(documents)) \ returned :
              \A i \in 1..Len(results) : similarities[d] <= results[i].score

DistinctIds(docs) ==
    \A i, j \in 1..Len(docs) : i # j => docs[i].id # docs[j].id

C5_TiesByIndex ==
    (search_out.ran /\ search_out.enc # EncodeFails /\ search_out.top_k >= 1) =>
        LET results == search_out.results
            similarities == cosine_similarity(search_out.enc, embeddings.rows)
            returned == {results[i].index : i \in 1..Len(results)}
        IN  /\ \A i, j \in 1..Len(results) :
                  (i < j /\ results[i].score = results[j].score)
                      => results[i].index < results[j].index
            /\ \A d \in (1..Len(documents)) \ returned :
                  \A i \in 1..Len(results) :
                      similarities[d] = results[i].score => results[i].index < d

(***************************************************************************)
(* C2: when generation fails, the chat request still answers success=true, *)
(* and its response text is the fallback text of the query, which holds    *)
(* the query, and that text is what the session history records.            *)
(***************************************************************************)
C2_FallbackOnFailure ==
    (last_op.op = "chat" /\ ~chat_out.llm.success) =>
        /\ chat_out.response.success
        /\ chat_out.response.response = get_fallback_response(chat_out.message)
        /\ IsSubSeq(chat_out.message, chat_out.response.response)
        /\ chat_out.response.response # chat_out.message
        /\ LET h == conversations[last_op.session_id]
           IN  h[Len(h)] = Message("assistant", chat_out.response.response, None)

\* a chat request whose completion call timed out
C2_Witness ==
    /\ last_op.op = "chat"
    /\ chat_out.llm.kind = "timeout"
    /\ chat_out.llm.sent = 1
    /\ chat_out.response.success

(***************************************************************************)
(* C3: the transcript that a chat request passes to generation holds the   *)
(* user message and then the assistant message of the previous chat        *)
(* request of the same session, when no clear came in between.             *)
(***************************************************************************)
C3_HistoryHasPreviousExchange ==
    (chat_out.ran /\ chat_out.previous # <<>>) =>
        /\ IsSubSeq(<<"User", ": ">> \o chat_out.previous[1].user
                        \o <<"\n", "Assistant", ": ">> \o chat_out.previous[1].assistant,
                    chat_out.history)
        /\ IsSubSeq(chat_out.history, chat_out.prompt[2])

\* a second chat request of a session, with another message than the first
C3_Witness ==
    /\ last_op.op = "chat"
    /\ chat_out.previous # <<>>
    /\ chat_out.previous[1].user # chat_out.message
    /\ chat_out.llm.success

(***************************************************************************)
(* C6: over an index without vectors (an empty corpus, or an index never   *)
(* built) a chat request that asks for context retrieves nothing and       *)
(* answers success=true with context_used=0 and the generated text or the  *)
(* fallback text.                                                          *)
(***************************************************************************)
NoVectors == embeddings.is_none \/ Len(embeddings.rows) = 0

C6_EmptyIndex ==
    (chat_out.ran /\ chat_out.include_context /\ NoVectors) =>
        /\ chat_out.docs = <<>>
        /\ chat_out.response.success
        /\ chat_out.response.context_used = 0
        /\ chat_out.response.response =
              (IF chat_out.llm.success THEN chat_out.llm.response
                                       ELSE get_fallback_response(chat_out.message))

\* a chat request with context over an index built of an empty corpus
C6_Witness ==
    /\ last_op.op = "chat"
    /\ chat_out.include_context
    /\ chat_out.top_k >= 1
    /\ chat_out.enc # EncodeFails
    /\ ~embeddings.is_none
    /\ Len(embeddings.rows) = 0

\* a chat request with context over an index that was never built
C6_WitnessNeverBuilt ==
    /\ last_op.op = "chat"
    /\ chat_out.include_context
    /\ embeddings.is_none

(***************************************************************************)
(* C7 (as claimed): when context inclusion is disabled or retrieval fails, *)
(* the request is not aborted, the context handed to generation is empty   *)
(* and the prompt has no context section.                                   *)
(***************************************************************************)
RetrievalFailed ==
    chat_out.include_context /\ ~NoVectors /\ chat_out.enc = EncodeFails

HasContextSection(user_prompt) == IsSubSeq(<<"Context:\n">>, user_prompt)

C7_WitnessDisabled ==
    /\ last_op.op = "chat"
    /\ ~chat_out.include_context
    /\ ~NoVectors

(***************************************************************************)
(* C9: a chat request adds two messages to the session history and so two  *)
(* records to the analytics log, one of the user and one of the assistant. *)
(***************************************************************************)
C9_TwoRecordsPerChat ==
    (last_op.op = "chat") =>
        /\ Len(analytics_log) = chat_out.log_before + 2
        /\ get_analytics_summary(analytics_log).analytics_user_messages =
              get_analytics_summary(SubSeq(analytics_log, 1, chat_out.log_before))
                  .analytics_user_messages + 1

(***************************************************************************)
(* C10: every analytics record a chat request appends carries context_used *)
(* equal to the number of documents retrieved for the request.             *)
(***************************************************************************)
C10_ContextUsedOnRecords ==
    (last_op.op = "chat") =>
        \A i \in (chat_out.log_before + 1)..Len(analytics_log) :
            /\ analytics_log[i].session_id = chat_out.response.session_id
            /\ analytics_log[i].context_used = chat_out.response.context_used

(***************************************************************************)
(* C11 (as claimed): when initialize gets to the vector store and finds it *)
(* missing, corrupt or written by another model, then after the call the   *)
(* index holds the current documents of the knowledge base, one freshly    *)
(* computed vector for each, and a snapshot of exactly that index under     *)
(* the configured model name has been written.                              *)
(***************************************************************************)
FoundNoUsableSnapshot ==
    /\ last_op.op = "initialize"
    /\ init_out.reached = "vector_store"
    /\ init_out.found \in {"absent", "corrupt", "mismatch"}

FreshIndex ==
    /\ documents = kb.all_documents
    /\ ~embeddings.is_none
    /\ Len(embeddings.rows) = Len(documents)
    /\ \A i \in 1..Len(documents) : embeddings.rows[i] = Encode(documents[i].content)

FreshSnapshot ==
    /\ fs.vectors.kind = "snapshot"
    /\ fs.vectors.model_name = ModelName
    /\ fs.vectors.documents = documents
    /\ Unpickle(fs.vectors.embeddings) = embeddings

C11_WitnessCorrupt ==
    /\ FoundNoUsableSnapshot
    /\ init_out.found = "corrupt"
    /\ init_out.ok
    /\ documents # <<>>

C12_WitnessReload ==
    /\ last_op.op = "initialize"
    /\ init_out.loaded
    /\ Len(embeddings.rows) >= 2
    /\ Len(documents) = Len(embeddings.rows)

(***************************************************************************)
(* C13: when faqs.json or policies.json is absent, load_data reports       *)
(* failure and the knowledge base holds the FAQ records, the policy        *)
(* records, the documents and the statistics it held before the call.      *)
(***************************************************************************)
C13_AllOrNothing ==
    (/\ last_op.op = "initialize"
     /\ init_out.reached # "encoder"
     /\ (~fs.faqs.present \/ ~fs.policies.present)) =>
        /\ ~kb.ok
        /\ init_out.reached = "load_data"
        /\ kb.faqs = init_out.kb_before.faqs
        /\ kb.policies = init_out.kb_before.policies
        /\ kb.all_documents = init_out.kb_before.all_documents
        /\ get_statistics(kb) = get_statistics(init_out.kb_before)

(***************************************************************************)
(* C14: whenever requests are served (after startup, whether initialize    *)
(* returned True or False), the index has as many vectors as documents     *)
(* and the vector at each position is the one of the document at that      *)
(* position. An index without an array of vectors has no vectors.          *)
(***************************************************************************)
C14_AlignedIndex ==
    (phase = "serving") =>
        /\ Len(embeddings.rows) = Len(documents)
        /\ \A i \in 1..Len(documents) : embeddings.rows[i] = Encode(documents[i].content)

(***************************************************************************)
(* C15: however the handlers of concurrently submitted chat requests and   *)
(* clears are ordered, after every step the history of each session holds, *)
(* in order, the messages that the requests of that session completed      *)
(* since its last clear have appended (the last max_messages of them), and *)
(* a request or a clear of one session leaves the history of every other   *)
(* session as it was.                                                       *)
(***************************************************************************)
C15_NoLostUpdate ==
    [][/\ \A s \in ServeSessions :
             get_conversation_history(conversations', s) =
                 LastN(IF s \in DOMAIN added' THEN added'[s] ELSE <<>>, max_messages')
       /\ \A s \in ServeSessions :
             (last_op'.session_id # s) =>
                 get_conversation_history(conversations', s) =
                     get_conversation_history(conversations, s)]_vars

\* two requests of one session were waiting together, and both have completed
C15_Witness ==
    /\ ~loop.busy
    /\ pending = {}
    /\ \E i, j \in 1..Len(started) :
          /\ i < j
          /\ started[j].id \in started[i].waiting
          /\ started[i].session_id = started[j].session_id
          /\ started[i].session_id \in DOMAIN conversations
          /\ Len(conversations[started[i].session_id]) = 4

(***************************************************************************)
(* C16: no chat request blocks another: while the handler of one request   *)
(* waits for the completion service, the handler of every other request    *)
(* that has been submitted can start.                                       *)
(***************************************************************************)
C16_NoBlocking ==
    loop.busy => \A p \in pending : ENABLED (BeginChat(p) \/ FailChat(p))

(***************************************************************************)
(* C17: the analytics log is append-only. Every step (add_message with or  *)
(* without an eviction from the session history, clear_session) leaves the *)
(* records that the log holds where they are and as they are, and the      *)
(* records of each session are, in order, the messages that were appended  *)
(* to that session: add_message puts the record of its message last, and   *)
(* no other step adds a record.                                             *)
(***************************************************************************)
SessionRecords(log, s) ==
    LET OfSession(e) == e.session_id = s
        records == SelectSeq(log, OfSession)
    IN  [i \in 1..Len(records) |->
            [role |-> records[i].role, content |-> records[i].content,
             metadata |-> records[i].metadata]]

C18_FaultEnvelope ==
    (last_op.op = "chat" /\ chat_out.raised) =>
        /\ ~chat_out.response.success
        /\ chat_out.response.session_id = last_op.session_id
        /\ chat_out.response.processing_time # <<>>
        /\ chat_out.response.processing_time # None
        /\ chat_out.response.error # None
        /\ \E pair \in ChatContext(chat_out.include_context, chat_out.enc, chat_out.top_k) :
              /\ IsRaise(pair[1])
              /\ chat_out.response.error = Tail(pair[1])
        /\ chat_out.response.response = <<"Internal error.">>
        /\ chat_out.response.context_used = 0

\* a chat request whose retrieval found a document that format_context cannot format
C18_Witness ==
    /\ last_op.op = "chat"
    /\ chat_out.raised
    /\ chat_out.include_context
    /\ chat_out.response.error = <<"'type'">>

(***************************************************************************)
(* C19: a chat request posts at most one request to the completion         *)
(* service; when that request fails (another status than 200, a timeout,   *)
(* an exception) no second one is posted and the response is the fallback  *)
(* text.                                                                    *)
(***************************************************************************)
C19_SingleAttempt ==
    (last_op.op = "chat") =>
        /\ chat_out.llm.sent <= 1
        /\ (chat_out.llm.kind \in {"status", "timeout", "exception"}) =>
              /\ chat_out.llm.sent = 1
              /\ chat_out.response.response = get_fallback_response(chat_out.message)

\* a chat request whose one request to the service was answered with an error status
C19_Witness ==
    /\ last_op.op = "chat"
    /\ chat_out.llm.kind = "status"
    /\ chat_out.llm.sent = 1
    /\ ~chat_out.llm.success

(***************************************************************************)
(* C20: when the configuration holds no credential for the provider of the *)
(* engine, generate_response returns the "not configured" failure and      *)
(* posts no request; and every failure is returned (success=False) with an *)
(* error text that tells its kind: not configured, timeout, error status,  *)
(* or another exception.                                                    *)
(***************************************************************************)
CredentialPresent ==
    Truthy(environ) /\ llm_engine.provider \in {"groq", "openai"}

KindOfError(error) ==
    IF error = None \/ error = <<>> THEN "none"
    ELSE IF Len(error) = 2 /\ error[2] = "_API_KEY not configured" THEN "unconfigured"
    ELSE IF error = <<"Request timed out. Please try again.">> THEN "timeout"
    ELSE IF error[1] = "API Error " THEN "status"
    ELSE IF error[1] = "LLM Error: " THEN "transport"
    ELSE "other"

C20_Unconfigured ==
    llm_out.ran =>
        /\ ~CredentialPresent =>
              /\ ~llm_out.result.success
              /\ KindOfError(llm_out.result.error) = "unconfigured"
              /\ llm_out.sent = 0
        /\ (CredentialPresent /\ llm_out.outcome # "ok") =>
              /\ ~llm_out.result.success
              /\ KindOfError(llm_out.result.error) = llm_out.outcome

(***************************************************************************)
(* C21: a chat request reads the transcript, retrieves the context, calls  *)
(* generation and only then updates memory: the transcript in the prompt   *)
(* sent to generation is the one of the session history as it was before   *)
(* the request, so it holds neither the user message of the request nor    *)
(* its reply; the two messages are appended after the generation outcome   *)
(* is known, the reply last, and the response carries that reply.           *)
(***************************************************************************)
C21_StepOrder ==
    [][(last_op'.op = "chat" /\ ~chat_out'.raised) =>
          LET sid == last_op'.session_id
              before == get_conversation_history(conversations, sid)
              after == conversations'[sid]
          IN  /\ chat_out'.history = format_history_for_prompt(conversations, sid, 5)
              /\ (before = <<>>) => chat_out'.history = StartOfConversation
              /\ IsSubSeq(chat_out'.history, chat_out'.prompt[2])
              /\ chat_out'.llm.sent = 1
              /\ after = before \o << Message("user", chat_out'.message, None),
                                      Message("assistant", chat_out'.response.response, None) >>
              /\ chat_out'.response.response =
                    (IF chat_out'.llm.success THEN chat_out'.llm.response
                                              ELSE get_fallback_response(chat_out'.message))]_vars

\* a second chat request of a session, repeating the message of the first
C21_Witness ==
    /\ last_op.op = "chat"
    /\ ~chat_out.raised
    /\ chat_out.previous # <<>>
    /\ chat_out.previous[1].user = chat_out.message
    /\ Len(conversations[last_op.session_id]) = 4

(***************************************************************************)
(* backend/app.py: the session, statistics and health endpoints, beside    *)
(* /chat and /clear_session                                                *)
(***************************************************************************)
MaxQueries == 3

\* backend/knowledge_base.py: what an instance of its KnowledgeBase has, the fields that
\* __init__ assigns and the methods of the class
KnowledgeBaseAttributes ==
    {"data_dir", "faqs", "policies", "all_documents",
     "load_data", "_prepare_documents", "get_all_documents"}

\* kb = KnowledgeBase() of backend/knowledge_base.py, the object app.py imports as kb;
\* no code calls its load_data
AppKb == [ok |-> FALSE, faqs |-> <<>>, policies |-> <<>>, all_documents |-> <<>>]

\* GET /stats: the dictionary is built from len(memory.get_all_sessions()) and
\* kb.get_statistics(); looking up a missing attribute raises AttributeError, which no
\* handler catches, and the server answers 500
StatsResponse(convs, log) ==
    IF "get_statistics" \notin KnowledgeBaseAttributes
    THEN [op |-> "stats", status |-> 500,
          detail |-> <<"'KnowledgeBase' object has no attribute 'get_statistics'">>]
    ELSE [op |-> "stats", status |-> 200,
          active_sessions |-> Cardinality(get_all_sessions(convs)),
          kb |-> get_statistics(AppKb),
          analytics |-> get_analytics_summary(log)]

\* GET /health
HealthResponse(emb) ==
    [op |-> "health", status |-> 200, state |-> "ok",
     services |-> [rag |-> ~emb.is_none, llm |-> TRUE, memory |-> TRUE, kb |-> TRUE]]

\* the mutant of SessionResponse: an unknown session is answered with an empty history
SessionResponseEmpty(convs, session_id) ==
    [op |-> "get_session", status |-> 200, session_id |-> session_id,
     body |-> get_conversation_history(convs, session_id)]

\* GET /session/{session_id}
SessionResponse(convs, session_id) ==
    LET h == get_conversation_history(convs, session_id)
    IN  IF h = <<>>
        THEN [op |-> "get_session", status |-> 404, session_id |-> session_id,
              detail |-> <<"Not found">>]
        ELSE [op |-> "get_session", status |-> 200, session_id |-> session_id, body |-> h]

\* a handler that only reads: it answers, and every object of the process is as before
Query(op, session_id, response) ==
    /\ phase = "serving"
    /\ reply' = response
    /\ last_op' = [op |-> op, session_id |-> session_id,
                   known |-> session_id \in DOMAIN conversations]
    /\ n_ops' = n_ops + 1
    /\ UNCHANGED <<memvars, ragvars, search_out, phase, fs, kb, llm_engine, environ, llm_out,
                   issued, exchanged, chat_out, init_out, announced, servevars>>

stats == Query("stats", "", StatsResponse(conversations, analytics_log))

health == Query("health", "", HealthResponse(embeddings))

get_session(session_id) ==
    Query("get_session", session_id, SessionResponse(conversations, session_id))

Stats == n_ops < MaxQueries /\ stats

Health == n_ops < MaxQueries /\ health

GetSession == n_ops < MaxQueries /\ \E s \in {"s1", Uuids[1]} : get_session(s)

\* POST /chat, the completion service answering or timing out
AdminChat ==
    /\ n_ops < MaxQueries
    /\ \E sid \in ChatSessions, outcome \in {o \in ServiceOutcomes : o.kind \in {"ok", "timeout"}} :
          IF sid = NoSession
          THEN /\ Cardinality(issued) < Len(Uuids)
               /\ issued' = issued \cup {Uuids[Cardinality(issued) + 1]}
               /\ chat(Uuids[Cardinality(issued) + 1], <<"hi">>, TRUE, 3, "default", outcome,
                       Encode(<<"hi">>))
          ELSE /\ UNCHANGED issued
               /\ chat(sid, <<"hi">>, TRUE, 3, "default", outcome, Encode(<<"hi">>))
    /\ UNCHANGED servevars

\* DELETE /clear_session/{session_id}
AdminClear ==
    /\ phase = "serving"
    /\ n_ops < MaxQueries
    /\ \E s \in {"s1", Uuids[1]} : clear_session(s)
    /\ reply' = SessionCleared
    /\ UNCHANGED servevars

NextAdmin == Startup \/ AdminChat \/ AdminClear \/ Stats \/ Health \/ GetSession

SpecAdmin == Init /\ [][NextAdmin]_vars

\* C22: a Stats request always succeeds and returns the active session count, the
\* document statistics of the loaded corpus and the analytics totals; a Stats request and a
\* Health request leave the session histories, the analytics log and the index as they were.
C22_ReadOnlyQueries ==
    [][last_op'.op \in {"stats", "health"}
         => /\ UNCHANGED <<conversations, analytics_log, ragvars>>
            /\ last_op'.op = "stats"
                 => /\ reply'.status = 200
                    /\ reply'.active_sessions = Cardinality(DOMAIN conversations)
                    /\ reply'.kb = get_statistics(kb)
                    /\ reply'.analytics = get_analytics_summary(analytics_log)]_vars

\* the part of C22 that the handlers keep: the two requests change no object of the process
C22_Frame ==
    [][last_op'.op \in {"stats", "health"}
         => UNCHANGED <<memvars, ragvars, fs, kb, llm_engine, exchanged, issued>>]_vars

C22_StatsFails == last_op.op = "stats" /\ reply.status = 500

\* C23: GET /session answers 404 exactly when the session is not in memory, which is when
\* no message was stored for it since it was last cleared, and otherwise answers with the
\* whole stored history, which has at most max_messages messages; DELETE /clear_session
\* answers "session cleared" for a session in memory and for one that is not.
C23_SessionOperations ==
    /\ last_op.op = "get_session"
         => /\ reply.op = "get_session"
            /\ reply.session_id = last_op.session_id
            /\ reply.status = 404 <=> reply.session_id \notin DOMAIN added
            /\ reply.status # 404
                 => /\ reply.status = 200
                    /\ reply.body = conversations[reply.session_id]
                    /\ reply.body = LastN(added[reply.session_id], max_messages)
                    /\ reply.body # <<>>
    /\ last_op.op = "clear_session"
         => /\ reply = SessionCleared
            /\ last_op.session_id \notin DOMAIN conversations

\* a session that a chat created and a clear removed is answered 404
C23_Witness ==
    /\ last_op.op = "get_session"
    /\ reply.status = 404
    /\ \E i \in 1..Len(analytics_log) : analytics_log[i].session_id = reply.session_id

C23_WitnessFound ==
    /\ last_op.op = "get_session"
    /\ reply.status = 200
    /\ Len(reply.body) = 4

C23_WitnessClearUnknown == last_op.op = "clear_session" /\ ~last_op.known

\* C24: when loading the source documents failed in initialize, startup has not announced
\* readiness and the health summary does not report the index as ready, and a later chat
\* is answered with an envelope.
C24_NotReadyAfterLoadFailure ==
    (init_out.ran /\ init_out.reached = "load_data" /\ ~init_out.ok)
        => /\ \A i \in 1..Len(announced) : announced[i] \notin {"RAG Engine OK", "API READY"}
           /\ last_op.op = "health" => ~reply.services.rag
           /\ last_op.op = "chat"
                => /\ chat_out.ran
                   /\ DOMAIN chat_out.response =
                        {"success", "response", "session_id", "processing_time",
                         "context_used", "error"}

\* the parts of C24 that the code keeps
C24_ServesAfterLoadFailure ==
    (init_out.ran /\ init_out.reached = "load_data" /\ ~init_out.ok)
        => /\ phase = "serving"
           /\ last_op.op = "health" => ~reply.services.rag
           /\ last_op.op = "chat"
                => /\ chat_out.ran
                   /\ DOMAIN chat_out.response =
                        {"success", "response", "session_id", "processing_time",
                         "context_used", "error"}

C24_WitnessHealth ==
    /\ init_out.ran /\ init_out.reached = "load_data"
    /\ last_op.op = "health" /\ reply.state = "ok"

C24_WitnessChat ==
    /\ init_out.ran /\ init_out.reached = "load_data"
    /\ last_op.op = "chat" /\ chat_out.response.success

(***************************************************************************)
(* The event loop under its scheduling: it runs the handler of a waiting   *)
(* request when it is free, and requests.post(..., timeout=30) returns or  *)
(* raises, the completion service answering or the timeout passing.        *)
(***************************************************************************)
\* a client sends POST /chat
RespondSubmit ==
    /\ InFlight + n_ops < MaxRequests
    /\ \E r \in {q \in ServeRequests : q.include_context <=> q.session_id = "s1"} :
          pending' = pending \cup {[id |-> InFlight + n_ops + 1, request |-> r]}
    /\ last_op' = [op |-> "submit", session_id |-> "", known |-> FALSE]
    /\ UNCHANGED <<memvars, ragvars, search_out, appvars, loop, started, n_ops>>

\* requests.post returns with status 200 or another status, or raises Timeout, and the
\* handler runs to its end
RespondEnd ==
    /\ loop.busy
    /\ \E outcome \in {o \in ServiceOutcomes : o.kind \in {"ok", "status", "timeout"}} :
          chat(loop.request.session_id, loop.request.message, loop.request.include_context,
               loop.request.top_k, loop.request.mode, outcome, loop.enc)
    /\ ~chat_out'.raised
    /\ loop' = Idle
    /\ UNCHANGED <<issued, pending, started>>

NextRespond == RespondSubmit \/ HandleChat \/ RespondEnd

SpecRespond == InitServe /\ [][NextRespond]_vars /\ WF_vars(HandleChat) /\ WF_vars(RespondEnd)

\* the same steps without the scheduling
SpecRespondUnfair == InitServe /\ [][NextRespond]_vars

\* the request has been sent by a client
Submitted(id) ==
    \/ \E p \in pending : p.id = id
    \/ \E i \in 1..Len(started) : started[i].id = id

\* the handler of the request has run to its end and returned its envelope
Responded(id) ==
    /\ \E i \in 1..Len(started) : started[i].id = id
    /\ ~(loop.busy /\ loop.id = id)

\* the errors ask_llm reports for the failures that are not a timeout
OtherGenerationErrors ==
    {<<"API Error ", "detail">>, <<"LLM Error: ", "detail">>,
     <<"GROQ_API_KEY not configured">>, <<"GROQ", "_API_KEY not configured">>}

\* C25: every chat request that was sent is eventually responded to, the completion call
\* answering or timing out, so that the event loop does not stay in a handler for ever;
\* and the generation failure reported for a timeout is the timeout error, which no other
\* failure kind reports.
C25_EventuallyResponded ==
    /\ \A id \in 1..MaxRequests : Submitted(id) ~> Responded(id)
    /\ [](loop.busy => <>(~loop.busy))
    /\ []((chat_out.ran /\ ~chat_out.raised /\ ~chat_out.llm.success)
            => /\ chat_out.llm.kind = "timeout"
                    <=> chat_out.llm.error = <<"Request timed out. Please try again.">>
               /\ chat_out.llm.kind # "timeout" => chat_out.llm.error \in OtherGenerationErrors)

\* the second request was sent while the first was at the completion service, which then
\* timed out, and both have been responded to
C25_Witness ==
    /\ Len(started) = 2
    /\ started[1].waiting # {}
    /\ Responded(1) /\ Responded(2)
    /\ chat_out.ran /\ ~chat_out.raised /\ chat_out.llm.kind = "timeout"

(***************************************************************************)
(* backend/memory.py: format_history_for_prompt, called with any session   *)
(* and any integer include_last_n on a memory that add_message and         *)
(* clear_session have worked on                                            *)
(***************************************************************************)
LastNs == (-MaxCapacity)..(MaxCapacity + 1)

\* one call of ConversationMemory.format_history_for_prompt
FormatHistory ==
    /\ \E s \in Sessions, n \in LastNs :
          /\ reply' = [op |-> "format_history_for_prompt", status |-> 200, session_id |-> s,
                       include_last_n |-> n,
                       text |-> format_history_for_prompt(conversations, s, n)]
          /\ last_op' = [op |-> "format_history_for_prompt", session_id |-> s,
                         known |-> s \in DOMAIN conversations]
    /\ UNCHANGED <<memvars, ragvars, search_out, phase, fs, kb, llm_engine, environ, llm_out,
                   issued, exchanged, chat_out, init_out, announced, servevars, n_ops>>

\* add_message with the role and the content of the message chosen
FormatAddMessage ==
    /\ n_ops < MaxOps
    /\ \E s \in Sessions, r \in Roles : add_message(s, r, <<"hi">>, None)

NextFormat == FormatAddMessage \/ ClearSession \/ FormatHistory

SpecFormat == InitMemory /\ [][NextFormat]_vars

\* the transcript of a list of messages: the heading, then one labelled line per message
Transcript(messages) ==
    Join(<< <<"Previous conversation:">> >>
             \o [i \in 1..Len(messages) |->
                   <<(IF messages[i].role = "user" THEN "User" ELSE "Assistant"), ": ">>
                      \o messages[i].content],
         <<"\n">>)

\* C26: format_history_for_prompt(session, lastN) returns the start-of-conversation
\* sentinel exactly when the session has no messages; otherwise it returns the transcript
\* of the last min(lastN, history length) messages of the session, in chronological order,
\* each labelled by its role, and of no others.
C26_FormatForPrompt ==
    last_op.op = "format_history_for_prompt"
        => LET h == get_conversation_history(conversations, reply.session_id)
           IN  /\ reply.text = StartOfConversation <=> h = <<>>
               /\ h # <<>>
                    => reply.text = Transcript(LastN(h, Min(reply.include_last_n, Len(h))))

\* the claim for include_last_n of 1 and more, where the code keeps it
C26_PositiveLastN ==
    (last_op.op = "format_history_for_prompt" /\ reply.include_last_n >= 1)
        => LET h == get_conversation_history(conversations, reply.session_id)
           IN  /\ reply.text = StartOfConversation <=> h = <<>>
               /\ h # <<>>
                    => reply.text = Transcript(LastN(h, Min(reply.include_last_n, Len(h))))

\* include_last_n = 0 gives the whole history
C26_WitnessZero ==
    /\ last_op.op = "format_history_for_prompt"
    /\ reply.include_last_n = 0
    /\ Len(get_conversation_history(conversations, reply.session_id)) = 2
    /\ reply.text = Transcript(conversations[reply.session_id])

\* a negative include_last_n gives the sentinel for a session that has messages
C26_WitnessNegative ==
    /\ last_op.op = "format_history_for_prompt"
    /\ reply.include_last_n < 0
    /\ get_conversation_history(conversations, reply.session_id) # <<>>
    /\ reply.text = StartOfConversation

\* the transcript is cut: the session has more messages than include_last_n
C26_WitnessCut ==
    /\ last_op.op = "format_history_for_prompt"
    /\ reply.include_last_n = 1
    /\ Len(get_conversation_history(conversations, reply.session_id)) = 2

\* where a label stands in a text: the first position that holds it, 0 when none does
Position(label, text) ==
    IF \E i \in 1..Len(text) : text[i] = label
    THEN CHOOSE i \in 1..Len(text) : text[i] = label /\ \A j \in 1..(i - 1) : text[j] # label
    ELSE 0

\* the text of the section that a label opens: what stands between the label and the
\* next label, or the end
SectionBody(label, text) ==
    LET labels == {"Conversation History:\n", "Context:\n", "User Question:\n"}
        from == Position(label, text) + 1
        stops == {i \in from..Len(text) : text[i] \in labels}
        to == IF stops = {} THEN Len(text)
              ELSE (CHOOSE i \in stops : \A j \in stops : i <= j) - 1
    IN  SubSeq(text, from, to)

\* C27: the user prompt that build_prompt returns holds its sections in the order
\* transcript, context, query; the transcript section is there exactly when the history
\* argument is not empty, the context section exactly when the context argument is not
\* empty, the query section always; a section that is there holds its argument.
C27_PromptSections ==
    llm_out.ran
        => LET up == llm_out.prompt[2]
               h == Position("Conversation History:\n", up)
               c == Position("Context:\n", up)
               q == Position("User Question:\n", up)
           IN  /\ h > 0 <=> Truthy(llm_out.conversation_history)
               /\ c > 0 <=> Truthy(llm_out.context)
               /\ q > 0
               /\ h > 0 => h = 1 /\ h < q
               /\ c > 0 => c < q /\ h < c
               /\ h = 0 /\ c = 0 => q = 1
               /\ h > 0 => SectionBody("Conversation History:\n", up)
                              = llm_out.conversation_history \o <<"\n">>
               /\ c > 0 => SectionBody("Context:\n", up) = llm_out.context \o <<"\n">>
               /\ SectionBody("User Question:\n", up) = llm_out.user_query \o <<"\n">>

\* a prompt with the three sections
C27_Witness ==
    /\ llm_out.ran
    /\ Truthy(llm_out.conversation_history) /\ Truthy(llm_out.context)
    /\ Position("Context:\n", llm_out.prompt[2]) > 1

\* a prompt of the query alone, built from an empty history and an empty context
C27_WitnessQueryOnly ==
    /\ llm_out.ran
    /\ llm_out.conversation_history = <<>> /\ llm_out.context = <<>>
    /\ Head(llm_out.prompt[2]) = "User Question:\n"

\* the ids of a list of documents, in order
DocumentIds(docs) == [i \in 1..Len(docs) |-> docs[i].id]

\* C28: after initialize has returned True, the documents of the index are the documents
\* that the knowledge base has just produced from the data files, the same ids in the same
\* order, also when a snapshot of the configured model was loaded.
C28_DocumentsOfStore ==
    (last_op.op = "initialize" /\ init_out.ok)
        => DocumentIds(documents) = DocumentIds(kb.all_documents)

\* the part of C28 that the code keeps: an index that initialize has built holds the
\* documents of the knowledge base
C28_BuiltFromStore ==
    (last_op.op = "initialize" /\ init_out.ok /\ ~init_out.loaded)
        => documents = kb.all_documents

\* initialize has loaded a snapshot whose documents are not those of the data files
C28_WitnessStale ==
    /\ last_op.op = "initialize" /\ init_out.ok /\ init_out.loaded
    /\ kb.ok
    /\ DocumentIds(documents) # DocumentIds(kb.all_documents)
    /\ documents # <<>>

\* initialize has loaded a snapshot whose documents are those of the data files
C28_WitnessSame ==
    /\ last_op.op = "initialize" /\ init_out.ok /\ init_out.loaded
    /\ documents = kb.all_documents
    /\ documents # <<>>

\* C29: a chat request that is answered with success = false has added no message to the
\* history of any session and no record to the analytics log.
C29_FailedChatLeavesMemory ==
    [][(last_op'.op = "chat" /\ ~chat_out'.response.success)
         => UNCHANGED <<conversations, analytics_log>>]_vars

\* a request has failed on a memory that holds the messages of an earlier request
C29_Witness ==
    /\ last_op.op = "chat"
    /\ ~chat_out.response.success
    /\ analytics_log # <<>>
    /\ DOMAIN conversations # {}

\* C30: for every integer top_k of a chat request, 0 and the negative ones included, the
\* number of documents retrieved, which is the context_used of the response, is at most
\* max(top_k, 0); top_k = 0 retrieves no document.
C30_AtMostTopK ==
    (last_op.op = "chat" /\ chat_out.ran /\ ~chat_out.raised)
        => /\ Len(chat_out.docs) <= (IF chat_out.top_k > 0 THEN chat_out.top_k ELSE 0)
           /\ chat_out.response.context_used = Len(chat_out.docs)
           /\ chat_out.top_k = 0 => chat_out.docs = <<>>

\* the claim for top_k of 1 and more, where the code keeps it
C30_PositiveTopK ==
    (last_op.op = "chat" /\ chat_out.ran /\ ~chat_out.raised /\ chat_out.top_k >= 1)
        => /\ Len(chat_out.docs) <= chat_out.top_k
           /\ chat_out.response.context_used = Len(chat_out.docs)

\* top_k = 0 has retrieved every document of the index
C30_WitnessZero ==
    /\ last_op.op = "chat" /\ chat_out.ran /\ ~chat_out.raised
    /\ chat_out.top_k = 0
    /\ Len(documents) >= 2
    /\ chat_out.response.context_used = Len(documents)

\* top_k = -1 has retrieved every document of the index but one
C30_WitnessNegative ==
    /\ last_op.op = "chat" /\ chat_out.ran /\ ~chat_out.raised
    /\ chat_out.top_k = -1
    /\ Len(documents) >= 2
    /\ chat_out.response.context_used = Len(documents) - 1

\* top_k = 1 has retrieved one document of an index that holds more
C30_WitnessOne ==
    /\ last_op.op = "chat" /\ chat_out.ran /\ ~chat_out.raised
    /\ chat_out.top_k = 1
    /\ Len(documents) >= 2
    /\ chat_out.response.context_used = 1

\* the sessions to which a message was added since they were last cleared
SessionsWithMessages == {s \in DOMAIN added : added[s] # <<>>}

\* C31: after any sequence of add_message, chat and clear_session, no session of the
\* mapping has an empty history: a session id is a key exactly when a message was added to
\* it since its last clear, and the active session count is the number of such sessions.
C31_NoEmptySession ==
    /\ \A s \in get_all_sessions(conversations) :
          get_conversation_history(conversations, s) # <<>>
    /\ get_all_sessions(conversations) = SessionsWithMessages
    /\ Cardinality(get_all_sessions(conversations)) = Cardinality(SessionsWithMessages)

\* a session with messages has been cleared beside a session whose oldest message was evicted
C31_Witness ==
    /\ last_op.op = "clear_session" /\ last_op.known
    /\ last_op.session_id \notin get_all_sessions(conversations)
    /\ \E s \in get_all_sessions(conversations) : Len(added[s]) > max_messages

====
